---- MODULE Spec2Model ----
(***************************************************************************)
(* A model of the two batch scripts of poliops-scripts-linux:              *)
(*                                                                         *)
(*   copy_fiscal_year_data.py  (Pipeline A, the periodic export)           *)
(*   get_check_files.py        (Pipeline B, the inbound transfer)          *)
(*                                                                         *)
(* Four specifications share one set of variables:                         *)
(*   SpecA        the script body of copy_fiscal_year_data                 *)
(*   SpecReports  a call of create_reports for one company                 *)
(*   SpecRewrite  a call of rewrite_csv on one input stream                *)
(*   Spec         the script body of copy_check_files                      *)
(* In each of them the variables of the other three keep their idle value. *)
(*                                                                         *)
(* Text is modelled as a sequence of characters (one-character strings)    *)
(* wherever the code looks inside it: decimal suffixes, line counts and    *)
(* field values.  Names that the code only compares or looks up (column    *)
(* names, company names) are TLA+ strings.                                 *)
(***************************************************************************)
EXTENDS Integers, Sequences, FiniteSets, TLC

VARIABLES
    \* ---- copy_fiscal_year_data (script body) ----
    pcA,              \* position in the script body / get_configuration
    configA,          \* the configuration file: [parsable, keys], keys the <<section, key>> it holds
    debuggingA,       \* the --debug flag
    log_levelA,       \* level of the root logger
    local_directory,  \* value read by get_configuration ("" before)
    remote_specs,     \* keys of REMOTE_KEYS read so far
    \* ---- create_reports ----
    pcR,              \* position in create_reports
    company_name,     \* the company the call is for
    resultSize,       \* resultSize[i]: rows the query of REPORTS[i] yields
    reportIdx,        \* index of report_spec in REPORTS
    cursorPos,        \* rows of cur already fetched
    rows,             \* the page last fetched: <<lo, hi>>, cursor positions lo..hi
    sequence_suffix,  \* characters of the sequence suffix
    retval,           \* pathnames returned, in order of appending
    filesA,           \* local file system: pathname -> <<header, page>>
    createdA,         \* number of open(pathname, 'w') calls so far
    \* ---- rewrite_csv ----
    pcW,              \* position in rewrite_csv
    ifh,              \* the input stream: the records csv.reader yields, in order
    readPos,          \* records of ifh consumed by the reader
    fieldnames,       \* reader.fieldnames once read
    fieldnames_out,   \* the output header
    ofh,              \* the output stream: the records handed to the csv writer
    enum_i,           \* the loop variable i; Unbound before the first iteration
    resultW,          \* how the call ended: a return value or an exception
    \* ---- copy_check_files (script body) ----
    pcB,              \* position in the script body
    configB,          \* the configuration file: [parsable, keys]
    remoteFS,         \* the remote host: remote path -> what is there
    localFS,          \* local temp directory: local path -> file
    shareFS,          \* the share: share path -> file
    idxB,             \* items of the current for loop already handled
    temp,             \* available_non_empty_files: specs that ls listed
    files_wanted,     \* specs that passed the line-count test
    copied_files,     \* specs copy_files_to_host returned
    audit,            \* rows inserted into ga.poliops_transfers, in order
    ssh_log,          \* commands run on the remote host, with exit code and stdout
    warnings,         \* logging.warning calls of move_remote_files_aside
    excB              \* the exception that ended the run, "" if none

varsA == <<pcA, configA, debuggingA, log_levelA, local_directory, remote_specs>>
varsR == <<pcR, company_name, resultSize, reportIdx, cursorPos, rows,
           sequence_suffix, retval, filesA, createdA>>
varsW == <<pcW, ifh, readPos, fieldnames, fieldnames_out, ofh, enum_i, resultW>>
varsB == <<pcB, configB, remoteFS, localFS, shareFS, idxB, temp, files_wanted,
           copied_files, audit, ssh_log, warnings, excB>>
vars == <<varsA, varsR, varsW, varsB>>

(***************************************************************************)
(* Bounds of the model.                                                    *)
(***************************************************************************)
\* most full pages a modelled query result holds
MaxPages == 10
\* most records after the header in a modelled input stream of rewrite_csv
MaxRecords == 2
\* most columns in the header of a modelled input stream of rewrite_csv
MaxFields == 2

(***************************************************************************)
(* Decimal text: str(n) and int(s) of Python for n >= 0.                   *)
(***************************************************************************)
Digits == <<"0", "1", "2", "3", "4", "5", "6", "7", "8", "9">>

DigitValue(ch) == (CHOOSE i \in 1..10 : Digits[i] = ch) - 1

RECURSIVE PyStr(_)
PyStr(n) == IF n < 10 THEN <<Digits[n + 1]>>
            ELSE PyStr(n \div 10) \o <<Digits[(n % 10) + 1]>>

RECURSIVE PyInt(_)
PyInt(s) == IF Len(s) = 1 THEN DigitValue(s[1])
            ELSE 10 * PyInt(SubSeq(s, 1, Len(s) - 1)) + DigitValue(s[Len(s)])

(***************************************************************************)
(* copy_fiscal_year_data.py: constants.                                    *)
(***************************************************************************)
ROWS_PER_FILE == 49999

LOCAL_DIRECTORY == "/home/runner/poliops2"

\* COMPANIES: the keys, in insertion order
COMPANIES_A == <<"aflcio", "cope", "wpr">>

\* REPORTS: the suffix of each ReportSpec, as text pieces ('' is the empty text)
REPORTS == << [table_name |-> "Poliops_MDA_View", suffix |-> <<>>],
              [table_name |-> "S2_GL20_Poliops_exp", suffix |-> <<"_narrow">>] >>

\* the section keys LOCAL and REMOTE (LOCAL is a reserved word of TLA+)
LOCAL_SECTION == "local"
REMOTE_SECTION == "remote"
DIRECTORY == "directory"
HOST == "host"
USER == "user"
KEYNAME == "keyname"
REMOTE_KEYS == <<HOST, USER, KEYNAME>>

(***************************************************************************)
(* copy_fiscal_year_data: the script body and get_configuration.           *)
(* The configuration file either cannot be parsed (config.read raises a    *)
(* configparser.Error) or defines a set of <<section, key>> pairs; a file  *)
(* that does not exist reads as the empty set.                             *)
(***************************************************************************)
KeysWantedA == {<<LOCAL_SECTION, DIRECTORY>>}
                  \cup {<<REMOTE_SECTION, REMOTE_KEYS[i]>> : i \in 1..Len(REMOTE_KEYS)}

ConfigFilesA == {[parsable |-> FALSE, keys |-> {}]}
                   \cup {[parsable |-> TRUE, keys |-> k] : k \in SUBSET KeysWantedA}

IdleA == /\ pcA = "idle"
         /\ configA = [parsable |-> TRUE, keys |-> {}]
         /\ debuggingA = FALSE
         /\ log_levelA = "WARNING"
         /\ local_directory = ""
         /\ remote_specs = <<>>

InitA == /\ pcA = "start"
         /\ configA \in ConfigFilesA
         /\ debuggingA \in BOOLEAN
         /\ log_levelA = "WARNING"
         /\ local_directory = ""
         /\ remote_specs = <<>>

\* lines 223-224
ConfigureLoggingA ==
    /\ pcA = "start"
    /\ log_levelA' = IF debuggingA THEN "DEBUG" ELSE log_levelA
    /\ pcA' = "config.read"
    /\ UNCHANGED <<varsR, varsW, varsB>>
    /\ UNCHANGED <<configA, debuggingA, local_directory, remote_specs>>

\* lines 95-96
ReadConfigA ==
    /\ pcA = "config.read"
    /\ configA.parsable
    /\ pcA' = "get_local"
    /\ UNCHANGED <<varsR, varsW, varsB>>
    /\ UNCHANGED <<configA, debuggingA, log_levelA, local_directory, remote_specs>>

\* line 97
GetLocalDirectoryA ==
    /\ pcA = "get_local"
    /\ <<LOCAL_SECTION, DIRECTORY>> \in configA.keys
    /\ local_directory' = LOCAL_DIRECTORY
    /\ pcA' = "get_remote"
    /\ UNCHANGED <<varsR, varsW, varsB>>
    /\ UNCHANGED <<configA, debuggingA, log_levelA, remote_specs>>

\* lines 99-100: one iteration of the loop over REMOTE_KEYS
GetRemoteKeyA ==
    /\ pcA = "get_remote"
    /\ Len(remote_specs) < Len(REMOTE_KEYS)
    /\ <<REMOTE_SECTION, REMOTE_KEYS[Len(remote_specs) + 1]>> \in configA.keys
    /\ remote_specs' = Append(remote_specs, REMOTE_KEYS[Len(remote_specs) + 1])
    /\ UNCHANGED <<varsR, varsW, varsB>>
    /\ UNCHANGED <<pcA, configA, debuggingA, log_levelA, local_directory>>

\* the statement at pcA raises configparser.Error
RaisesConfigErrorA ==
    \/ pcA = "config.read" /\ ~configA.parsable
    \/ pcA = "get_local" /\ <<LOCAL_SECTION, DIRECTORY>> \notin configA.keys
    \/ /\ pcA = "get_remote"
       /\ Len(remote_specs) < Len(REMOTE_KEYS)
       /\ <<REMOTE_SECTION, REMOTE_KEYS[Len(remote_specs) + 1]>> \notin configA.keys

\* lines 104-112: the message is printed and the script exits
ConfigErrorA ==
    /\ RaisesConfigErrorA
    /\ pcA' = "exit"
    /\ UNCHANGED <<varsR, varsW, varsB>>
    /\ UNCHANGED <<configA, debuggingA, log_levelA, local_directory, remote_specs>>

\* lines 102, 225-226
ReturnConfigurationA ==
    /\ pcA = "get_remote"
    /\ Len(remote_specs) = Len(REMOTE_KEYS)
    /\ pcA' = "log_remote_specs"
    /\ UNCHANGED <<varsR, varsW, varsB>>
    /\ UNCHANGED <<configA, debuggingA, log_levelA, local_directory, remote_specs>>

\* line 227: the argument 'remote specs are ' + remote_specs is evaluated
\* before logging.debug is entered, whatever the level; str + dict raises
\* TypeError, which nothing catches.  Lines 228-232 are never reached.
LogRemoteSpecsA ==
    /\ pcA = "log_remote_specs"
    /\ pcA' = "TypeError"
    /\ UNCHANGED <<varsR, varsW, varsB>>
    /\ UNCHANGED <<configA, debuggingA, log_levelA, local_directory, remote_specs>>

TerminatedA == pcA \in {"exit", "TypeError", "copy_files.done"}

NextA == \/ ConfigureLoggingA
         \/ ReadConfigA
         \/ GetLocalDirectoryA
         \/ GetRemoteKeyA
         \/ ConfigErrorA
         \/ ReturnConfigurationA
         \/ LogRemoteSpecsA

(***************************************************************************)
(* create_reports(local_directory, conn, company_name, company_spec).      *)
(*                                                                         *)
(* The rows of a cursor are identified by their position 1..n in the       *)
(* result; the code never looks inside a row.  A page, the list that       *)
(* fetchmany returns, is the block <<lo, hi>> of the positions lo..hi, in  *)
(* cursor order, and is empty when hi < lo.                                *)
(***************************************************************************)
Min(a, b) == IF a <= b THEN a ELSE b

PageLen(page) == IF page[2] < page[1] THEN 0 ELSE page[2] - page[1] + 1

\* cur.fetchmany(size) on a cursor of n rows of which pos are consumed
Fetchmany(pos, n, size) == <<pos + 1, Min(pos + size, n)>>

\* result sizes the model draws: k full pages and a remainder
Remainders == {0, 1, ROWS_PER_FILE - 1}

ResultSizes == {k * ROWS_PER_FILE + r : k \in 0..MaxPages, r \in Remainders}

\* line 172 with prefix of line 168, as pieces of text
PathnameOut(company, type_suffix, seq_suffix) ==
    <<LOCAL_DIRECTORY, "/", company>> \o type_suffix \o seq_suffix \o <<".tsv">>

\* lines 205-208
NextSuffixFromOne(suffix) ==
    IF suffix = <<>> THEN <<"1">> ELSE PyStr(PyInt(suffix) + 1)

NextSuffix(suffix) ==
    IF suffix = <<>> THEN <<"2">> ELSE PyStr(PyInt(suffix) + 1)

\* lines 173-178: open(pathname_out, 'w') truncates, then header and rows
WriteFile(fs, pathname, header, page) ==
    {f \in fs : f.path # pathname}
        \cup {[path |-> pathname, header |-> header, rows |-> page]}

IdleR == /\ pcR = "idle"
         /\ company_name = ""
         /\ resultSize = <<>>
         /\ reportIdx = 0
         /\ cursorPos = 0
         /\ rows = <<1, 0>>
         /\ sequence_suffix = <<>>
         /\ retval = <<>>
         /\ filesA = {}
         /\ createdA = 0

\* the call: line 184, retval = []
InitR == /\ pcR = "for"
         /\ company_name \in {COMPANIES_A[i] : i \in 1..Len(COMPANIES_A)}
         /\ resultSize \in [1..Len(REPORTS) -> ResultSizes]
         /\ reportIdx = 0
         /\ cursorPos = 0
         /\ rows = <<1, 0>>
         /\ sequence_suffix = <<>>
         /\ retval = <<>>
         /\ filesA = {}
         /\ createdA = 0

\* lines 185-196: the next report_spec, its query, the first fetch
ExecuteQuery ==
    /\ pcR = "for"
    /\ reportIdx < Len(REPORTS)
    /\ reportIdx' = reportIdx + 1
    /\ sequence_suffix' = <<>>
    /\ rows' = Fetchmany(0, resultSize[reportIdx + 1], ROWS_PER_FILE)
    /\ cursorPos' = PageLen(rows')
    /\ pcR' = "while"
    /\ UNCHANGED <<varsA, varsW, varsB>>
    /\ UNCHANGED <<company_name, resultSize, retval, filesA, createdA>>

\* lines 197-208: one iteration of the while loop
WritePage ==
    /\ pcR = "while"
    /\ PageLen(rows) > 0
    /\ LET pathname_out == PathnameOut(company_name, REPORTS[reportIdx].suffix,
                                       sequence_suffix)
           fetched == Fetchmany(cursorPos, resultSize[reportIdx], ROWS_PER_FILE)
       IN /\ filesA' = WriteFile(filesA, pathname_out, reportIdx, rows)
          /\ createdA' = createdA + 1
          /\ retval' = Append(retval, pathname_out)
          /\ rows' = fetched
          /\ cursorPos' = cursorPos + PageLen(fetched)
          /\ IF PageLen(fetched) = 0
             THEN /\ pcR' = "for"          \* break
                  /\ UNCHANGED sequence_suffix
             ELSE /\ pcR' = "while"
                  /\ sequence_suffix' = NextSuffix(sequence_suffix)
    /\ UNCHANGED <<varsA, varsW, varsB>>
    /\ UNCHANGED <<company_name, resultSize, reportIdx>>

\* line 197: the loop condition fails (only on an empty result)
WhileExit ==
    /\ pcR = "while"
    /\ PageLen(rows) = 0
    /\ pcR' = "for"
    /\ UNCHANGED <<varsA, varsW, varsB>>
    /\ UNCHANGED <<company_name, resultSize, reportIdx, cursorPos, rows,
                   sequence_suffix, retval, filesA, createdA>>

\* line 209
ReturnReports ==
    /\ pcR = "for"
    /\ reportIdx = Len(REPORTS)
    /\ pcR' = "return"
    /\ UNCHANGED <<varsA, varsW, varsB>>
    /\ UNCHANGED <<company_name, resultSize, reportIdx, cursorPos, rows,
                   sequence_suffix, retval, filesA, createdA>>

NextR == \/ ExecuteQuery
         \/ WritePage
         \/ WhileExit
         \/ ReturnReports

(***************************************************************************)
(* get_check_files.py: rewrite_csv(ifh, ofh).                              *)
(*                                                                         *)
(* A text is a sequence of pieces; the tab character is a piece of its     *)
(* own.  The input stream is the sequence of records csv.reader yields     *)
(* from it, a record being a sequence of texts and a blank line the empty  *)
(* record.  The output stream is the sequence of records handed to the     *)
(* csv writer (header first); its quoting and escaping are not modelled.   *)
(* Python values other than texts: None and lists.                         *)
(***************************************************************************)
TAB == "\t"

None == [kind |-> "None"]
StrVal(text) == [kind |-> "str", text |-> text]
ListVal(items) == [kind |-> "list", items |-> items]

\* enum_i before the first iteration binds it
Unbound == -1

FIELD_MAPPINGS ==
    (<<"FCC">> :> <<"LM2">>) @@ (<<"Project Code">> :> <<"PROJECTS">>)
    @@ (<<"State Code">> :> <<"STATE">>) @@ (<<"Staffer ID">> :> <<"EMPLOYEES">>)
    @@ (<<"CommitID">> :> <<"COMMITID">>) @@ (<<"RequestID">> :> <<"REQUESTID">>)
    @@ (<<"PP Code">> :> <<"PROGRAM">>)

\* name in FIELD_MAPPINGS, for a dict key (a text or None)
InFieldMappings(key) == key.kind = "str" /\ key.text \in DOMAIN FIELD_MAPPINGS

\* a Python dict: its items in insertion order
DictHas(d, k) == \E i \in 1..Len(d) : d[i].key = k

DictSet(d, k, v) ==
    IF DictHas(d, k)
    THEN [i \in 1..Len(d) |-> IF d[i].key = k THEN [key |-> k, val |-> v] ELSE d[i]]
    ELSE Append(d, [key |-> k, val |-> v])

DictGet(d, k, default) ==
    IF DictHas(d, k) THEN d[CHOOSE i \in 1..Len(d) : d[i].key = k].val ELSE default

\* csv.DictReader.__next__: dict(zip(fieldnames, row)), then restkey / restval
RECURSIVE DictZip(_, _, _)
DictZip(names, record, n) ==
    IF n = 0 THEN <<>>
    ELSE DictSet(DictZip(names, record, n - 1), StrVal(names[n]), StrVal(record[n]))

RECURSIVE DictRestval(_, _, _)
DictRestval(d, names, from) ==
    IF from > Len(names) THEN d
    ELSE DictRestval(DictSet(d, StrVal(names[from]), None), names, from + 1)

DictReaderRow(names, record) ==
    LET lf == Len(names)
        lr == Len(record)
        d == DictZip(names, record, Min(lf, lr))
    IN IF lf < lr THEN DictSet(d, None, ListVal(SubSeq(record, lf + 1, lr)))
       ELSE IF lf > lr THEN DictRestval(d, names, lr + 1)
       ELSE d

\* the reader skips blank records: the next record after pos, 0 when exhausted
NextRecord(stream, pos) ==
    IF \E q \in (pos + 1)..Len(stream) : stream[q] # <<>>
    THEN CHOOSE q \in (pos + 1)..Len(stream) :
            /\ stream[q] # <<>>
            /\ \A q2 \in (pos + 1)..(q - 1) : stream[q2] = <<>>
    ELSE 0

\* str.replace('\t', ' ')
ReplaceTabs(text) == [i \in 1..Len(text) |-> IF text[i] = TAB THEN " " ELSE text[i]]

\* lines 221-226
FieldnamesUnmapped(names) == names

FieldnamesOut(names) ==
    [i \in 1..Len(names) |->
        IF names[i] \in DOMAIN FIELD_MAPPINGS THEN FIELD_MAPPINGS[names[i]]
        ELSE names[i]]

\* lines 232-237: row_out after the items 1..n of row, or the AttributeError
\* that .replace raises on a value that is None or a list
RECURSIVE RowOut(_, _)
RowOut(row, n) ==
    IF n = 0 THEN [ok |-> TRUE, dict |-> <<>>]
    ELSE LET before == RowOut(row, n - 1)
             name == row[n].key
             value == row[n].val
         IN IF ~before.ok THEN before
            ELSE IF InFieldMappings(name)
            THEN [ok |-> TRUE,
                  dict |-> DictSet(before.dict, StrVal(FIELD_MAPPINGS[name.text]), value)]
            ELSE IF value.kind = "str"
            THEN [ok |-> TRUE,
                  dict |-> DictSet(before.dict, name, StrVal(ReplaceTabs(value.text)))]
            ELSE [ok |-> FALSE, dict |-> before.dict]

\* csv.DictWriter.writerow: the value of each output field, '' for a missing
\* key; the csv writer renders None as ''
RenderField(value) == IF value.kind = "str" THEN value.text ELSE <<>>

DictWriterRow(names_out, row_out) ==
    [p \in 1..Len(names_out) |->
        RenderField(DictGet(row_out, StrVal(names_out[p]), StrVal(<<>>)))]

\* DictWriter raises ValueError on a key that is no output field
HasWrongFields(names_out, row_out) ==
    \E i \in 1..Len(row_out) :
        ~\E p \in 1..Len(names_out) : row_out[i].key = StrVal(names_out[p])

Returned(value) == [kind |-> "return", value |-> value, exc |-> ""]
Raised(exc) == [kind |-> "raise", value |-> 0, exc |-> exc]
Running == [kind |-> "running", value |-> 0, exc |-> ""]

IdleW == /\ pcW = "idle"
         /\ ifh = <<>>
         /\ readPos = 0
         /\ fieldnames = None
         /\ fieldnames_out = <<>>
         /\ ofh = <<>>
         /\ enum_i = Unbound
         /\ resultW = Running

\* column names and field values of the modelled streams
Names == {<<"FCC">>, <<"LM2">>, <<"Notes">>}

Values == {<<"x">>, <<"a", TAB, "b">>}

SeqsUpTo(S, n) == UNION {[1..k -> S] : k \in 0..n}

\* records after a header of L columns: blank, full, one field short, one long
RecordsFor(L) ==
    {<<>>} \cup [1..L -> Values]
        \cup {[i \in 1..(L - 1) |-> <<"x">>] : k \in {L} \ {0}}
        \cup {[i \in 1..(L + 1) |-> <<"x">>]}

Streams ==
    {<<>>} \cup UNION {
        {<<h>> \o recs : recs \in SeqsUpTo(RecordsFor(Len(h)), MaxRecords)}
            : h \in SeqsUpTo(Names, MaxFields)}

InitW == /\ pcW = "start"
         /\ ifh \in Streams
         /\ readPos = 0
         /\ fieldnames = None
         /\ fieldnames_out = <<>>
         /\ ofh = <<>>
         /\ enum_i = Unbound
         /\ resultW = Running

\* lines 220-230: the header is read, mapped and written; an exhausted input
\* leaves reader.fieldnames None and line 222 raises TypeError
ReadHeader ==
    /\ pcW = "start"
    /\ IF Len(ifh) = 0
       THEN /\ pcW' = "raised"
            /\ resultW' = Raised("TypeError")
            /\ UNCHANGED <<readPos, fieldnames, fieldnames_out, ofh>>
       ELSE /\ readPos' = 1
            /\ fieldnames' = ListVal(ifh[1])
            /\ fieldnames_out' = FieldnamesOut(ifh[1])
            /\ ofh' = <<fieldnames_out'>>
            /\ pcW' = "for"
            /\ UNCHANGED resultW
    /\ UNCHANGED <<ifh, enum_i>>
    /\ UNCHANGED <<varsA, varsR, varsB>>

\* lines 231-238: one iteration of the loop over the reader
RewriteRow ==
    /\ pcW = "for"
    /\ NextRecord(ifh, readPos) # 0
    /\ LET q == NextRecord(ifh, readPos)
           row == DictReaderRow(fieldnames.items, ifh[q])
           out == RowOut(row, Len(row))
       IN /\ readPos' = q
          /\ enum_i' = IF enum_i = Unbound THEN 0 ELSE enum_i + 1
          /\ IF ~out.ok
             THEN /\ pcW' = "raised"
                  /\ resultW' = Raised("AttributeError")
                  /\ UNCHANGED ofh
             ELSE IF HasWrongFields(fieldnames_out, out.dict)
             THEN /\ pcW' = "raised"
                  /\ resultW' = Raised("ValueError")
                  /\ UNCHANGED ofh
             ELSE /\ ofh' = Append(ofh, DictWriterRow(fieldnames_out, out.dict))
                  /\ UNCHANGED <<pcW, resultW>>
    /\ UNCHANGED <<ifh, fieldnames, fieldnames_out>>
    /\ UNCHANGED <<varsA, varsR, varsB>>

\* line 240, reached when the reader is exhausted: return i + 1, which raises
\* UnboundLocalError when the loop body never ran
ReturnCount ==
    /\ pcW = "for"
    /\ NextRecord(ifh, readPos) = 0
    /\ readPos' = Len(ifh)
    /\ IF enum_i = Unbound
       THEN /\ pcW' = "raised"
            /\ resultW' = Raised("UnboundLocalError")
       ELSE /\ pcW' = "returned"
            /\ resultW' = Returned(enum_i + 1)
    /\ UNCHANGED <<ifh, fieldnames, fieldnames_out, ofh, enum_i>>
    /\ UNCHANGED <<varsA, varsR, varsB>>

NextW == \/ ReadHeader
         \/ RewriteRow
         \/ ReturnCount

(***************************************************************************)
(* get_check_files.py: copy_check_files, the script body.                  *)
(*                                                                         *)
(* The remote host is modelled by what each remote path holds: nothing, a  *)
(* file the ssh user cannot read, or a file.  A file is the sequence of    *)
(* its lines, each line the csv record it parses to, and whether its last  *)
(* line ends in a newline; quoted fields hold no newline, and no path      *)
(* holds white space.  The output of a remote command follows from what    *)
(* the path holds when the command runs.                                   *)
(***************************************************************************)
\* COMPANIES: the abbreviation and directory_name of each Company
COMPANIES == << [abbreviation |-> "afl", directory_name |-> "AFLCIO"],
                [abbreviation |-> "cope", directory_name |-> "COPE"],
                [abbreviation |-> "wpr", directory_name |-> "WPR"] >>

TEMP_DIRECTORY == "temp_directory"
DESTINATION_DIRECTORY == "destination_directory"
DONE_DIRECTORY == "done_directory"

KEYS_WANTED ==
    {<<REMOTE_SECTION, k>> : k \in {HOST, USER, KEYNAME, DIRECTORY, DONE_DIRECTORY}}
        \cup {<<LOCAL_SECTION, k>> : k \in {TEMP_DIRECTORY, DESTINATION_DIRECTORY}}

\* configuration files: complete, one key short, or unparsable
ConfigFilesB ==
    {[parsable |-> FALSE, keys |-> {}], [parsable |-> TRUE, keys |-> KEYS_WANTED]}
        \cup {[parsable |-> TRUE, keys |-> KEYS_WANTED \ {k}] : k \in KEYS_WANTED}

\* lines 170-181: the FileSpec of a company; directories are named by the
\* configuration key that holds them, the file name by its strftime pattern
FileSpecOf(company) ==
    [remote_path |-> <<DIRECTORY, "/", "cr-", company.abbreviation, ".csv">>,
     remote_path_old |-> <<DONE_DIRECTORY, "/", "cr-", company.abbreviation, ".csv">>,
     local_path |-> <<TEMP_DIRECTORY, "/", company.directory_name, "/",
                      "%Y%m%d-%H%M", ".txt">>,
     share_path |-> <<DESTINATION_DIRECTORY, "/", company.directory_name, "/",
                      "%Y%m%d-%H%M", ".txt">>]

\* lines 157-183
name_prospective_files == [i \in 1..Len(COMPANIES) |-> FileSpecOf(COMPANIES[i])]

SpecsB == {name_prospective_files[i] : i \in 1..Len(COMPANIES)}

\* what a remote path holds
Absent == [kind |-> "absent", lines |-> <<>>, nl |-> TRUE]
Unreadable == [kind |-> "unreadable", lines |-> <<>>, nl |-> TRUE]
RemoteFile(lines, nl) == [kind |-> "file", lines |-> lines, nl |-> nl]

HeaderB == << <<"FCC">>, <<"Notes">> >>
RowB1 == << <<"A1">>, <<"x">> >>
RowB2 == << <<"A2">>, <<"a", TAB, "b">> >>

RemoteContents ==
    {Absent, Unreadable,
     RemoteFile(<<>>, TRUE),
     RemoteFile(<<HeaderB>>, TRUE),
     RemoteFile(<<HeaderB, <<>>>>, TRUE),
     RemoteFile(<<HeaderB, RowB1>>, TRUE),
     RemoteFile(<<HeaderB, RowB1>>, FALSE),
     RemoteFile(<<HeaderB, RowB1, RowB2>>, TRUE)}

\* wc -l counts newline characters
NewlineCount(f) == IF f.nl THEN Len(f.lines) ELSE Len(f.lines) - 1

\* the commands: exit code and stdout lines for what the path holds.
\* A line of wc is modelled by the words line.split() yields.
LsOutput(path, f) ==
    CASE f.kind = "absent" -> [exit_code |-> 2, stdout |-> <<>>]
      [] OTHER -> [exit_code |-> 0, stdout |-> <<path>>]

WcOutput(path, f) ==
    CASE f.kind = "file" ->
             [exit_code |-> 0, stdout |-> << <<PyStr(NewlineCount(f)), path>> >>]
      [] OTHER -> [exit_code |-> 1, stdout |-> <<>>]

CatOutput(path, f) ==
    IF f.kind = "file" THEN [exit_code |-> 0, stdout |-> f.lines]
    ELSE [exit_code |-> 1, stdout |-> <<>>]

MvExitCode(f) == IF f.kind = "absent" THEN 1 ELSE 0

LogEntry(cmd, path, out) ==
    [cmd |-> cmd, path |-> path, exit_code |-> out.exit_code, stdout |-> out.stdout]

\* a local or share file: its records, or no file
NoFile == [exists |-> FALSE, records |-> <<>>]
LocalFile(records) == [exists |-> TRUE, records |-> records]

\* lines 104-123: the rows RunRecorder inserts
FoundNotCopied(pathname) ==
    [pathname |-> pathname, data_records |-> 0, status |-> "found but not copied"]

CopiedCountingHeader(pathname, data_records) ==
    [pathname |-> pathname, data_records |-> data_records + 1, status |-> "copied"]

Copied(pathname, data_records) ==
    [pathname |-> pathname, data_records |-> data_records, status |-> "copied"]

IdleB == /\ pcB = "idle"
         /\ configB = [parsable |-> TRUE, keys |-> {}]
         /\ remoteFS = <<>>
         /\ localFS = <<>>
         /\ shareFS = <<>>
         /\ idxB = 0
         /\ temp = <<>>
         /\ files_wanted = <<>>
         /\ copied_files = <<>>
         /\ audit = <<>>
         /\ ssh_log = <<>>
         /\ warnings = 0
         /\ excB = ""

\* the done directory starts empty; the temp directory and the share hold
\* no file of this run's name
InitB == /\ pcB = "get_configuration"
         /\ configB \in ConfigFilesB
         /\ \E now \in [SpecsB -> RemoteContents] :
               remoteFS = [path \in {sp.remote_path : sp \in SpecsB}
                                  \cup {sp.remote_path_old : sp \in SpecsB} |->
                              IF \E sp \in SpecsB : sp.remote_path = path
                              THEN now[CHOOSE sp \in SpecsB : sp.remote_path = path]
                              ELSE Absent]
         /\ localFS = [path \in {sp.local_path : sp \in SpecsB} |-> NoFile]
         /\ shareFS = [path \in {sp.share_path : sp \in SpecsB} |-> NoFile]
         /\ idxB = 0
         /\ temp = <<>>
         /\ files_wanted = <<>>
         /\ copied_files = <<>>
         /\ audit = <<>>
         /\ ssh_log = <<>>
         /\ warnings = 0
         /\ excB = ""

ValidConfigB == configB.parsable /\ KEYS_WANTED \subseteq configB.keys

\* lines 286-290 with a complete configuration file
GetConfigurationB ==
    /\ pcB = "get_configuration"
    /\ ValidConfigB
    /\ pcB' = "ls"
    /\ idxB' = 0
    /\ UNCHANGED <<configB, remoteFS, localFS, shareFS, temp, files_wanted,
                   copied_files, audit, ssh_log, warnings, excB>>
    /\ UNCHANGED <<varsA, varsR, varsW>>

\* lines 144-146: configparser.Error, logging.error, exit()
ConfigErrorB ==
    /\ pcB = "get_configuration"
    /\ ~ValidConfigB
    /\ pcB' = "exit"
    /\ UNCHANGED <<configB, remoteFS, localFS, shareFS, idxB, temp, files_wanted,
                   copied_files, audit, ssh_log, warnings, excB>>
    /\ UNCHANGED <<varsA, varsR, varsW>>

\* lines 190-194: ls of the next prospective file; the spec is appended once
\* for every line of stdout
RECURSIVE Repeat(_, _)
Repeat(x, n) == IF n = 0 THEN <<>> ELSE Append(Repeat(x, n - 1), x)

LsFile ==
    /\ pcB = "ls"
    /\ idxB < Len(name_prospective_files)
    /\ LET spec == name_prospective_files[idxB + 1]
           host_out == LsOutput(spec.remote_path, remoteFS[spec.remote_path])
       IN /\ ssh_log' = Append(ssh_log, LogEntry("ls", spec.remote_path, host_out))
          /\ temp' = temp \o Repeat(spec, Len(host_out.stdout))
    /\ idxB' = idxB + 1
    /\ UNCHANGED <<pcB, configB, remoteFS, localFS, shareFS, files_wanted,
                   copied_files, audit, warnings, excB>>
    /\ UNCHANGED <<varsA, varsR, varsW>>

\* line 195: the first loop is over
LsDone ==
    /\ pcB = "ls"
    /\ idxB = Len(name_prospective_files)
    /\ pcB' = "wc"
    /\ idxB' = 0
    /\ UNCHANGED <<configB, remoteFS, localFS, shareFS, temp, files_wanted,
                   copied_files, audit, ssh_log, warnings, excB>>
    /\ UNCHANGED <<varsA, varsR, varsW>>

\* line 201
IsNotOne(parts) == Len(parts) = 2 /\ parts[1] # <<"1">>

HasTwoParts(parts) == Len(parts) = 2

PassesLineCount(parts) == IsNotOne(parts)

\* lines 196-207: wc -l of the next listed file; stdout.__next__() raises
\* StopIteration when wc printed nothing
WcFile ==
    /\ pcB = "wc"
    /\ idxB < Len(temp)
    /\ LET spec == temp[idxB + 1]
           host_out == WcOutput(spec.remote_path, remoteFS[spec.remote_path])
       IN /\ ssh_log' = Append(ssh_log, LogEntry("wc", spec.remote_path, host_out))
          /\ IF Len(host_out.stdout) = 0
             THEN /\ pcB' = "raised"
                  /\ excB' = "StopIteration"
                  /\ UNCHANGED <<idxB, files_wanted, audit>>
             ELSE /\ IF PassesLineCount(host_out.stdout[1])
                     THEN /\ files_wanted' = Append(files_wanted, spec)
                          /\ UNCHANGED audit
                     ELSE /\ audit' = Append(audit, FoundNotCopied(spec.remote_path))
                          /\ UNCHANGED files_wanted
                  /\ idxB' = idxB + 1
                  /\ UNCHANGED <<pcB, excB>>
    /\ UNCHANGED <<configB, remoteFS, localFS, shareFS, temp, copied_files, warnings>>
    /\ UNCHANGED <<varsA, varsR, varsW>>

\* lines 209, 295-296
WcDone ==
    /\ pcB = "wc"
    /\ idxB = Len(temp)
    /\ pcB' = IF Len(files_wanted) > 0 THEN "copy_files_to_host" ELSE "move_aside"
    /\ idxB' = 0
    /\ UNCHANGED <<configB, remoteFS, localFS, shareFS, temp, files_wanted,
                   copied_files, audit, ssh_log, warnings, excB>>
    /\ UNCHANGED <<varsA, varsR, varsW>>

\* lines 265-268: the local file is opened for writing, cat is run and
\* rewrite_csv is called on its stdout
FetchFile ==
    /\ pcB = "copy_files_to_host"
    /\ idxB < Len(files_wanted)
    /\ LET spec == files_wanted[idxB + 1]
           host_out == CatOutput(spec.remote_path, remoteFS[spec.remote_path])
       IN /\ ssh_log' = Append(ssh_log, LogEntry("cat", spec.remote_path, host_out))
          /\ localFS' = [localFS EXCEPT ![spec.local_path] = LocalFile(<<>>)]
          /\ ifh' = host_out.stdout
    /\ pcW' = "start"
    /\ readPos' = 0
    /\ fieldnames' = None
    /\ fieldnames_out' = <<>>
    /\ ofh' = <<>>
    /\ enum_i' = Unbound
    /\ resultW' = Running
    /\ pcB' = "rewrite_csv"
    /\ UNCHANGED <<configB, remoteFS, shareFS, idxB, temp, files_wanted,
                   copied_files, audit, warnings, excB>>
    /\ UNCHANGED <<varsA, varsR>>

\* lines 268-270: rewrite_csv returned; the file is closed with what was
\* written, the spec is appended and the copy is recorded
RecordCopy ==
    /\ pcB = "rewrite_csv"
    /\ pcW = "returned"
    /\ LET spec == files_wanted[idxB + 1]
       IN /\ localFS' = [localFS EXCEPT ![spec.local_path] = LocalFile(ofh)]
          /\ copied_files' = Append(copied_files, spec)
          /\ audit' = Append(audit, Copied(spec.remote_path, resultW.value))
    /\ idxB' = idxB + 1
    /\ pcB' = "copy_files_to_host"
    /\ pcW' = "idle"
    /\ UNCHANGED <<configB, remoteFS, shareFS, temp, files_wanted, ssh_log,
                   warnings, excB>>
    /\ UNCHANGED <<ifh, readPos, fieldnames, fieldnames_out, ofh, enum_i, resultW>>
    /\ UNCHANGED <<varsA, varsR>>

\* rewrite_csv raised: the with statement closes the file and the exception
\* ends the run
RewriteRaised ==
    /\ pcB = "rewrite_csv"
    /\ pcW = "raised"
    /\ LET spec == files_wanted[idxB + 1]
       IN localFS' = [localFS EXCEPT ![spec.local_path] = LocalFile(ofh)]
    /\ pcB' = "raised"
    /\ excB' = resultW.exc
    /\ pcW' = "idle"
    /\ UNCHANGED <<configB, remoteFS, shareFS, idxB, temp, files_wanted,
                   copied_files, audit, ssh_log, warnings>>
    /\ UNCHANGED <<ifh, readPos, fieldnames, fieldnames_out, ofh, enum_i, resultW>>
    /\ UNCHANGED <<varsA, varsR>>

\* lines 271, 299
FetchDone ==
    /\ pcB = "copy_files_to_host"
    /\ idxB = Len(files_wanted)
    /\ pcB' = "copy_files_to_share"
    /\ idxB' = 0
    /\ UNCHANGED <<configB, remoteFS, localFS, shareFS, temp, files_wanted,
                   copied_files, audit, ssh_log, warnings, excB>>
    /\ UNCHANGED <<varsA, varsR, varsW>>

\* lines 274-275: shutil.copyfile of the next copied file
CopyFileToShare ==
    /\ pcB = "copy_files_to_share"
    /\ idxB < Len(copied_files)
    /\ LET spec == copied_files[idxB + 1]
       IN shareFS' = [shareFS EXCEPT ![spec.share_path] = localFS[spec.local_path]]
    /\ idxB' = idxB + 1
    /\ UNCHANGED <<pcB, configB, remoteFS, localFS, temp, files_wanted,
                   copied_files, audit, ssh_log, warnings, excB>>
    /\ UNCHANGED <<varsA, varsR, varsW>>

\* line 275: shutil.copyfile raises OSError (the share is not reachable);
\* nothing catches it
CopyFileToShareFails ==
    /\ pcB = "copy_files_to_share"
    /\ idxB < Len(copied_files)
    /\ pcB' = "raised"
    /\ excB' = "OSError"
    /\ UNCHANGED <<configB, remoteFS, localFS, shareFS, idxB, temp, files_wanted,
                   copied_files, audit, ssh_log, warnings>>
    /\ UNCHANGED <<varsA, varsR, varsW>>

\* lines 275, 300
ShareDone ==
    /\ pcB = "copy_files_to_share"
    /\ idxB = Len(copied_files)
    /\ pcB' = "move_aside"
    /\ idxB' = 0
    /\ UNCHANGED <<configB, remoteFS, localFS, shareFS, temp, files_wanted,
                   copied_files, audit, ssh_log, warnings, excB>>
    /\ UNCHANGED <<varsA, varsR, varsW>>

\* line 300: the specs handed to move_remote_files_aside
SpecsCopied == copied_files

SpecsToMoveAside == name_prospective_files

\* lines 246-255: mv of the next spec; a non-zero exit code is logged as a
\* warning
MoveAside ==
    /\ pcB = "move_aside"
    /\ idxB < Len(SpecsToMoveAside)
    /\ LET spec == SpecsToMoveAside[idxB + 1]
           f == remoteFS[spec.remote_path]
           exit_code == MvExitCode(f)
       IN /\ ssh_log' = Append(ssh_log,
                LogEntry("mv", spec.remote_path,
                         [exit_code |-> exit_code, stdout |-> <<>>]))
          /\ remoteFS' = IF exit_code = 0
                         THEN [remoteFS EXCEPT ![spec.remote_path] = Absent,
                                               ![spec.remote_path_old] = f]
                         ELSE remoteFS
          /\ warnings' = IF exit_code # 0 THEN warnings + 1 ELSE warnings
    /\ idxB' = idxB + 1
    /\ UNCHANGED <<pcB, configB, localFS, shareFS, temp, files_wanted,
                   copied_files, audit, excB>>
    /\ UNCHANGED <<varsA, varsR, varsW>>

\* line 300 returns: the script body is over
MoveAsideDone ==
    /\ pcB = "move_aside"
    /\ idxB = Len(SpecsToMoveAside)
    /\ pcB' = "done"
    /\ UNCHANGED <<configB, remoteFS, localFS, shareFS, idxB, temp, files_wanted,
                   copied_files, audit, ssh_log, warnings, excB>>
    /\ UNCHANGED <<varsA, varsR, varsW>>

TerminatedB == pcB \in {"exit", "raised", "done"}

NextB == \/ GetConfigurationB
         \/ ConfigErrorB
         \/ LsFile
         \/ LsDone
         \/ WcFile
         \/ WcDone
         \/ FetchFile
         \/ RecordCopy
         \/ RewriteRaised
         \/ FetchDone
         \/ CopyFileToShare
         \/ CopyFileToShareFails
         \/ ShareDone
         \/ MoveAside
         \/ MoveAsideDone

(***************************************************************************)
(* The upstream producer.  The files that lines 190-249 look at, read and  *)
(* move live on the remote host, where an upstream producer of the files  *)
(* writes them; nothing in the script locks them.  Between any two remote  *)
(* commands of a run the producer may create a file that is not there,     *)
(* append lines to a file, or end its unfinished last line.  It never      *)
(* touches the done directory.  What it writes to a path before the first  *)
(* command of the run is an initial content of that path, and what it      *)
(* writes after the mv of the path is not looked at by this run any more,  *)
(* so neither is a step of the model; cat hands over its whole output at   *)
(* once, so a write during rewrite_csv is a write right after it.          *)
(***************************************************************************)
IsPrefix(s, t) == Len(s) <= Len(t) /\ SubSeq(t, 1, Len(s)) = s

Extends(f, g) ==
    /\ g.kind = "file"
    /\ g # f
    /\ \/ f.kind = "absent"
       \/ /\ f.kind = "file"
          /\ IsPrefix(f.lines, g.lines)
          /\ f.nl \/ (g.lines = f.lines /\ g.nl)

UpstreamWrites ==
    /\ pcB \in {"ls", "wc", "copy_files_to_host", "copy_files_to_share", "move_aside"}
    /\ \E sp \in SpecsB, g \in RemoteContents :
          /\ \A i \in 1..Len(ssh_log) :
                ~(ssh_log[i].cmd = "mv" /\ ssh_log[i].path = sp.remote_path)
          /\ Extends(remoteFS[sp.remote_path], g)
          /\ remoteFS' = [remoteFS EXCEPT ![sp.remote_path] = g]
    /\ UNCHANGED <<pcB, configB, localFS, shareFS, idxB, temp, files_wanted,
                   copied_files, audit, ssh_log, warnings, excB>>
    /\ UNCHANGED <<varsA, varsR, varsW>>

(***************************************************************************)
(* Claims about Pipeline A.                                                *)
(***************************************************************************)
ExpectedFileCount(n) ==
    (n \div ROWS_PER_FILE) + (IF n % ROWS_PER_FILE > 0 THEN 1 ELSE 0)

ExpectedSuffix(i) == IF i = 1 THEN <<>> ELSE PyStr(i)

ExpectedPathnames(j) ==
    [i \in 1..ExpectedFileCount(resultSize[j]) |->
        PathnameOut(company_name, REPORTS[j].suffix, ExpectedSuffix(i))]

RECURSIVE ExpectedRetval(_)
ExpectedRetval(j) ==
    IF j = 0 THEN <<>> ELSE ExpectedRetval(j - 1) \o ExpectedPathnames(j)

\* the file at a pathname
FileAt(fs, pathname) == CHOOSE f \in fs : f.path = pathname

\* pages, taken in order, are exactly the cursor rows 1..n in cursor order
PagesAreCursor(pages, n) ==
    /\ Len(pages) = 0 => n = 0
    /\ Len(pages) > 0 => pages[1][1] = 1 /\ pages[Len(pages)][2] = n
    /\ \A i \in 1..Len(pages) : pages[i][1] <= pages[i][2]
    /\ \A i \in 1..(Len(pages) - 1) : pages[i + 1][1] = pages[i][2] + 1

\* C1: when the loop over a cursor of n = k*ROWS_PER_FILE + r rows has ended,
\* it has created exactly k + (1 if r > 0) files (none for n = 0, no trailing
\* header-only file), the i-th with sequence suffix '' for i = 1 and the
\* decimal text of i for i >= 2, and the pages of these files, in creation
\* order, are the rows of the cursor, each once, in cursor order.
C1_PaginatedWriter ==
    pcR \in {"for", "return"} =>
        /\ retval = ExpectedRetval(reportIdx)
        /\ createdA = Len(retval)
        /\ Cardinality(filesA) = Len(retval)
        /\ \A j \in 1..reportIdx :
              LET names == ExpectedPathnames(j)
              IN /\ \A i \in 1..Len(names) :
                        /\ \E f \in filesA : f.path = names[i]
                        /\ FileAt(filesA, names[i]).header = j
                 /\ PagesAreCursor([i \in 1..Len(names) |->
                                       FileAt(filesA, names[i]).rows],
                                   resultSize[j])

\* a call that wrote a result of two full pages and one of a page and a row
C1_Witness ==
    /\ pcR = "return"
    /\ resultSize[1] = 2 * ROWS_PER_FILE
    /\ resultSize[2] = ROWS_PER_FILE + 1
    /\ Len(retval) = 4

ValidConfigA == configA.parsable /\ KeysWantedA \subseteq configA.keys

\* C2: a run with a valid configuration file (and no database or SSH
\* failure) ends having gone through the report queries and the remote copy
\* of every file written.
C2_RunReachesRemoteCopy ==
    (TerminatedA /\ ValidConfigA) => pcA = "copy_files.done"

(***************************************************************************)
(* Claims about rewrite_csv.                                               *)
(***************************************************************************)
\* the data records of a stream: the non-blank records after the first
DataRecords(stream) == SelectSeq(Tail(stream), LAMBDA rec : rec # <<>>)

CallEndedW == pcW \in {"returned", "raised"}

\* a header of at least one column and every data record as long as it
WellFormedInput ==
    /\ Len(ifh) >= 1
    /\ ifh[1] # <<>>
    /\ \A q \in 2..Len(ifh) : ifh[q] = <<>> \/ Len(ifh[q]) = Len(ifh[1])

HasTab(text) == \E i \in 1..Len(text) : text[i] = TAB

Distinct(names) ==
    \A p1, p2 \in 1..Len(names) : names[p1] = names[p2] => p1 = p2

\* C3: on every well-formed input the call returns the number of data rows
\* it wrote; with a header and no data rows it returns 0 and does not raise.
C3_ReturnsRowCount ==
    (CallEndedW /\ WellFormedInput) =>
        /\ resultW = Returned(Len(ofh) - 1)
        /\ Len(ofh) - 1 = Len(DataRecords(ifh))

\* C4: no field of a data row of the output holds a tab, whether its column
\* is in the rename table or not.
C4_NoTabInOutput ==
    \A k \in 2..Len(ofh) : \A p \in 1..Len(ofh[k]) : ~HasTab(ofh[k][p])

\* the output header is the input header renamed position by position
HeaderRenamed ==
    pcW \in {"for", "returned", "raised"} /\ fieldnames # None =>
        /\ Len(ofh) >= 1
        /\ Len(ofh[1]) = Len(ifh[1])
        /\ \A p \in 1..Len(ifh[1]) :
              /\ ifh[1][p] \in DOMAIN FIELD_MAPPINGS
                    => ofh[1][p] = FIELD_MAPPINGS[ifh[1][p]]
              /\ ifh[1][p] \notin DOMAIN FIELD_MAPPINGS => ofh[1][p] = ifh[1][p]
              /\ ofh[1][p] # <<"FCC">>

\* the k-th data row written holds, at each position of the k-th data record
\* that lies within the header, that record's value (tabs replaced or not)
RowsInPlace ==
    \A k \in 1..(Len(ofh) - 1) :
        LET rec == DataRecords(ifh)[k]
        IN \A p \in 1..Min(Len(rec), Len(ifh[1])) :
              ofh[k + 1][p] \in {rec[p], ReplaceTabs(rec[p])}

\* C5 as stated: for every input header.
C5_RenamedInPlace == HeaderRenamed /\ RowsInPlace

\* C5 as amended: the header is renamed position by position for every
\* input; the values of a data row keep their column position whenever the
\* names of the output header are pairwise distinct (no input name occurs
\* twice and none equals the mapped name of another input column).
C5_RenamedInPlaceDistinct ==
    /\ HeaderRenamed
    /\ (Len(ofh) >= 1 /\ Distinct(ofh[1])) => RowsInPlace

\* a completed call on FCC,Notes with two data rows, one of them with tabs
C5_Witness ==
    /\ pcW = "returned"
    /\ ifh[1] = << <<"FCC">>, <<"Notes">> >>
    /\ Len(ofh) = 3
    /\ \E k \in 2..3 : ofh[k] = << <<"a", TAB, "b">>, <<"a", " ", "b">> >>

(***************************************************************************)
(* Claims about Pipeline B.                                                *)
(***************************************************************************)
InSeq(x, seq) == \E i \in 1..Len(seq) : seq[i] = x

\* the entries of the log for one command on one path
LogOf(cmd, path) == SelectSeq(ssh_log, LAMBDA e : e.cmd = cmd /\ e.path = path)

\* ls printed the path: the file is present
Listed(path) == \E i \in 1..Len(ssh_log) :
    ssh_log[i].cmd = "ls" /\ ssh_log[i].path = path /\ Len(ssh_log[i].stdout) > 0

\* wc reported a line count for the path, and the count
Counted(path) == \E i \in 1..Len(ssh_log) :
    ssh_log[i].cmd = "wc" /\ ssh_log[i].path = path /\ Len(ssh_log[i].stdout) > 0

LineCount(path) == PyInt(LogOf("wc", path)[1].stdout[1][1])

AuditOf(path) == SelectSeq(audit, LAMBDA r : r.pathname = path)

\* C6: a candidate file is among the files to copy if and only if it is
\* present and wc reported more than one line for it.
C6_WantedIffMoreThanOneLine ==
    \A sp \in SpecsB :
        InSeq(sp, files_wanted)
            <=> (Listed(sp.remote_path) /\ Counted(sp.remote_path)
                    /\ LineCount(sp.remote_path) > 1)

\* the record a fetched file gets: copied, with the data rows of its rewrite
CopiedRecordOf(sp) ==
    Copied(sp.remote_path, Len(localFS[sp.local_path].records) - 1)

\* C7 as stated: in a completed run every candidate file has exactly one
\* audit record, 'copied' if it passed the filter and 'found but not copied'
\* with count 0 otherwise, an absent file included.
C7_OneRecordPerCandidate ==
    pcB = "done" =>
        \A sp \in SpecsB :
            AuditOf(sp.remote_path) =
                IF InSeq(sp, files_wanted) THEN <<CopiedRecordOf(sp)>>
                ELSE <<FoundNotCopied(sp.remote_path)>>

\* C7 as amended: no file ever has two records; in a completed run a file
\* that ls did not list has no record, and a file that ls listed has exactly
\* one: 'found but not copied' with count 0 if wc reported one line,
\* 'copied' with the number of data rows fetched otherwise.
C7_OneRecordPerListedFile ==
    /\ \A sp \in SpecsB : Len(AuditOf(sp.remote_path)) <= 1
    /\ pcB = "done" =>
          \A sp \in SpecsB :
              AuditOf(sp.remote_path) =
                  IF ~Listed(sp.remote_path) THEN <<>>
                  ELSE IF LineCount(sp.remote_path) = 1
                  THEN <<FoundNotCopied(sp.remote_path)>>
                  ELSE <<CopiedRecordOf(sp)>>

\* a completed run with an absent file, a header-only file and a copied one
C7_Witness ==
    /\ pcB = "done"
    /\ \E sp \in SpecsB : ~Listed(sp.remote_path)
    /\ \E i \in 1..Len(audit) : audit[i].status = "found but not copied"
    /\ \E i \in 1..Len(audit) : audit[i].status = "copied" /\ audit[i].data_records = 2

MvIssued == SelectSeq(ssh_log, LAMBDA e : e.cmd = "mv")

MvOnlyAfterCopyStages == Len(MvIssued) > 0 => pcB \in {"move_aside", "done"}

\* C8 as stated: every run that gets past configuration loading ends with
\* one mv issued for every prospective file, none of them before the fetch
\* and share-copy stages are over.
C8_MoveAsideInEveryRun ==
    /\ MvOnlyAfterCopyStages
    /\ (TerminatedB /\ pcB # "exit") =>
          \A sp \in SpecsB : Len(LogOf("mv", sp.remote_path)) = 1

\* C8 as amended: a run that an unhandled exception ends (in the check, the
\* fetch or the share copy) issues no mv at all; every other run that gets
\* past configuration loading issues mv exactly once for every prospective
\* file, in the order of the companies, found or not, copied or not, and
\* only after the fetch and share-copy stages are over.
C8_MoveAsideUnlessRaised ==
    /\ MvOnlyAfterCopyStages
    /\ pcB \in {"raised", "exit"} => Len(MvIssued) = 0
    /\ pcB = "done" =>
          /\ Len(MvIssued) = Len(name_prospective_files)
          /\ \A i \in 1..Len(MvIssued) :
                MvIssued[i].path = name_prospective_files[i].remote_path

\* a completed run in which mv was issued for an absent file, for a file
\* found but not copied, and for a copied file
C8_Witness ==
    /\ pcB = "done"
    /\ warnings > 0
    /\ Len(copied_files) > 0
    /\ \E i \in 1..Len(audit) : audit[i].status = "found but not copied"

\* C9: no run is ended by a remote command that exited non-zero: a run that
\* an exception ended did not have a failed command as its last one.
C9_NonZeroExitDoesNotHalt ==
    (pcB = "raised" /\ Len(ssh_log) > 0) => ssh_log[Len(ssh_log)].exit_code = 0

\* C10 as stated: every 'copied' record refers to a file whose rewritten
\* content is at its share path.
C10_CopiedRecordHasShareFile ==
    \A sp \in SpecsB :
        (\E i \in 1..Len(audit) :
            audit[i].pathname = sp.remote_path /\ audit[i].status = "copied")
        => /\ shareFS[sp.share_path].exists
           /\ shareFS[sp.share_path] = localFS[sp.local_path]

\* C10 as amended: the record of a file is written when the file has been
\* fetched and rewritten to its local path, before it is copied to the
\* share: every 'copied' record refers to a file whose rewritten content,
\* header and that many data rows, is at its local path, and a file is at
\* its share path only if its record exists.
C10_CopiedRecordHasLocalFile ==
    \A sp \in SpecsB :
        /\ \A i \in 1..Len(audit) :
              (audit[i].pathname = sp.remote_path /\ audit[i].status = "copied")
              => /\ localFS[sp.local_path].exists
                 /\ Len(localFS[sp.local_path].records) = audit[i].data_records + 1
        /\ shareFS[sp.share_path].exists
              => /\ shareFS[sp.share_path] = localFS[sp.local_path]
                 /\ \E i \in 1..Len(audit) :
                       audit[i].pathname = sp.remote_path /\ audit[i].status = "copied"

\* a run ended by a failed share copy after a copy was recorded
C10_Witness ==
    /\ pcB = "raised"
    /\ excB = "OSError"
    /\ \E i \in 1..Len(audit) : audit[i].status = "copied"
    /\ \E sp \in SpecsB : shareFS[sp.share_path].exists

\* what mv put in the done directory for a prospective file
MovedAside(sp) == remoteFS[sp.remote_path_old]

HasDataRow(f) == f.kind = "file" /\ Len(f.lines) > 0 /\ Len(DataRecords(f.lines)) > 0

\* cat printed exactly these lines, the file was rewritten and its copy is
\* at the share path
FetchedAndShared(sp, f) ==
    /\ \E i \in 1..Len(ssh_log) :
          /\ ssh_log[i].cmd = "cat"
          /\ ssh_log[i].path = sp.remote_path
          /\ ssh_log[i].exit_code = 0
          /\ ssh_log[i].stdout = f.lines
    /\ InSeq(sp, copied_files)
    /\ shareFS[sp.share_path].exists

\* C11: no data is lost by the move-aside step: a file that mv has put in
\* the done directory either holds no data row beyond its header, or holds
\* exactly the lines that were fetched, rewritten and copied to the share
\* earlier in the run, whatever the upstream producer wrote in between.
C11_NoDataLostByMoveAside ==
    \A sp \in SpecsB :
        HasDataRow(MovedAside(sp)) => FetchedAndShared(sp, MovedAside(sp))

(***************************************************************************)
(* Specifications.                                                         *)
(***************************************************************************)
InitSpecA == InitA /\ IdleR /\ IdleW /\ IdleB

SpecA == InitSpecA /\ [][NextA]_vars

InitSpecReports == InitR /\ IdleA /\ IdleW /\ IdleB

SpecReports == InitSpecReports /\ [][NextR]_vars

InitSpecRewrite == InitW /\ IdleA /\ IdleR /\ IdleB

SpecRewrite == InitSpecRewrite /\ [][NextW]_vars

Init == InitB /\ IdleA /\ IdleR /\ IdleW

Next == NextB \/ NextW

Spec == Init /\ [][Next]_vars

NextProducer == NextB \/ NextW \/ UpstreamWrites

SpecProducer == Init /\ [][NextProducer]_vars

====
